---- MODULE Spec2Model ----
(***************************************************************************)
(* Model of book_search/book_price_drop.py: the per-store price scrape     *)
(* that folds quotes into a best price per book (scrape_price_from_store), *)
(* the merge of the day's table into the historical ledger                 *)
(* (update_historical_data) and the run that drives both (scrape_books).   *)
(*                                                                         *)
(* Prices are integers in cents.  The two float operations whose result    *)
(* depends on binary64 rounding are modelled by what they compute:         *)
(* LeqMargin for  q <= p + 0.02  and Discount for round((1 - q/d) * 100).  *)
(* Python's None and the float nan are two different values, None and NaN. *)
(***************************************************************************)
EXTENDS Integers, Sequences, FiniteSets, TLC

(***************************************************************************)
(* Bounds of the model.                                                    *)
(***************************************************************************)
BasePrice == 1002     \* lowest price a store can quote, in cents
PriceSpan == 3        \* quotes range over BasePrice .. BasePrice + PriceSpan
MaxRuns == 2          \* runs of scrape_books in one behaviour

Prices == BasePrice..(BasePrice + PriceSpan)

(***************************************************************************)
(* Values.                                                                 *)
(***************************************************************************)
None == -1            \* Python None (read_books, "not found" of an adapter)
NaN == -2             \* float nan (an empty cell read by read_csv)
NoStore == <<>>       \* best_store with no store name in it (None / nan)

IsNumber(x) == x \notin {None, NaN}

\* STORE_MAIN_URLS, in the order the dict is iterated
STORE_MAIN_URLS == <<"Almedina", "Leya", "Presenca">>

ISBNs == {"isbn1", "isbn2"}

\* the catalog file: the books of a run, in file order
Catalogs == {<<"isbn1">>, <<"isbn2">>, <<"isbn1", "isbn2">>}

\* default_price column of the catalog file
DefaultPrice(isbn) == IF isbn = "isbn1" THEN BasePrice + 6 ELSE 2 * BasePrice

\* what the price element of a store's page can hold for a book: a price, or
\* None when the page has no such element.  isbn2 is listed by every store at
\* one price.
Listings(isbn) == IF isbn = "isbn1" THEN Prices \cup {None} ELSE {BasePrice}

\* columns of df_books: the catalog's columns and the three working columns
BookCols == <<"isbn", "title", "default_price", "best_price", "best_store", "discount">>

\* columns of the ledger file before its date columns
LedgerCols == <<"isbn", "title", "default_price", "best_price", "best_store",
                "discount", "best_date">>

InsertLoc == 9        \* df_history.insert(loc=9, ...)

Range(s) == {s[i] : i \in DOMAIN s}

(***************************************************************************)
(* Float arithmetic.                                                       *)
(***************************************************************************)
Margin == 2           \* the 0.02 of "+ 0.02", in cents

\* The prices p (cents, 990..1030) for which the binary64 sum p/100 + 0.02 is
\* one ulp below the binary64 nearest to (p+2)/100, so that a quote of exactly
\* p + 0.02 compares greater than the sum.
RoundsShort == {994, 995, 1003, 1004, 1011, 1012, 1019, 1020, 1028, 1029}

\* the test with the slip of accepting every price
LeqAlways(q, p) == q # NaN /\ p # NaN

\* q <= (p + 0.02) on floats; a comparison with nan is False
LeqMargin(q, p) ==
    /\ q # NaN
    /\ p # NaN
    /\ \/ q < p + Margin
       \/ q = p + Margin /\ p \notin RoundsShort

\* round((1 - q / d) * 100): the nearest integer to 100 * (d - q) / d, ties to even
Discount(q, d) ==
    LET n == 100 * (d - q)
        lo == n \div d
        twice == 2 * (n % d)
    IN  IF twice > d THEN lo + 1
        ELSE IF twice < d THEN lo
        ELSE IF lo % 2 = 0 THEN lo ELSE lo + 1

(***************************************************************************)
(* read_books: one row per catalog book, working columns set to None.      *)
(***************************************************************************)
read_books(catalog) ==
    [isbn \in Range(catalog) |->
        [default_price |-> DefaultPrice(isbn),
         best_price |-> None,
         best_store |-> NoStore,
         discount |-> None]]

(***************************************************************************)
(* Store adapters.  A response is [status, listed]: the HTTP status and    *)
(* the price in the page's price element (None when the page has none).    *)
(* An adapter gives [raised, price, sent]: the exception it raised ("" for *)
(* none), the price it returned and whether it sent an HTTP request.       *)
(***************************************************************************)
Responses(isbn) ==
    [status : {200, 500}, listed : Listings(isbn)]

\* response.raise_for_status()
get_html_from_url(resp) ==
    IF resp.status = 200
    THEN [raised |-> "", html |-> resp.listed]
    ELSE [raised |-> "HTTPError", html |-> None]

get_price_almedina(resp) ==
    LET page == get_html_from_url(resp)
    IN  [raised |-> page.raised, price |-> page.html, sent |-> TRUE]

\* requests.post and no raise_for_status: the body is parsed whatever the status
get_price_leya(resp) == [raised |-> "", price |-> resp.listed, sent |-> TRUE]

get_price_presenca(resp) ==
    LET page == get_html_from_url(resp)
    IN  [raised |-> page.raised, price |-> page.html, sent |-> TRUE]

\* get_price with the slip of falling back to an adapter for an unknown store
get_price_any_store(store, resp) ==
    CASE store = "Leya" -> get_price_leya(resp)
      [] store = "Presenca" -> get_price_presenca(resp)
      [] OTHER -> get_price_almedina(resp)

\* lines 135-138: a store that is not a key of price_functions raises before
\* any adapter is called
get_price(store, resp) ==
    CASE store = "Almedina" -> get_price_almedina(resp)
      [] store = "Leya" -> get_price_leya(resp)
      [] store = "Presenca" -> get_price_presenca(resp)
      [] OTHER -> [raised |-> "ValueError", price |-> None, sent |-> FALSE]

(***************************************************************************)
(* Variants of scrape_price_from_store with one slip each.                 *)
(***************************************************************************)
\* the margin test written with < instead of <=
scrape_price_strict(row, store, scraped_price) ==
    IF scraped_price = None
    THEN row
    ELSE IF row.best_price = None
            \/ (row.best_price # NaN /\ scraped_price < row.best_price + Margin)
    THEN [row EXCEPT
            !.best_price = scraped_price,
            !.discount = Discount(scraped_price, row.default_price),
            !.best_store = IF @ # NoStore THEN Append(@, store) ELSE <<store>>]
    ELSE row

\* a tie replaces the store instead of joining it
scrape_price_no_join(row, store, scraped_price) ==
    IF scraped_price = None
    THEN row
    ELSE IF row.best_price = None \/ LeqMargin(scraped_price, row.best_price)
    THEN [row EXCEPT
            !.best_price = scraped_price,
            !.discount = Discount(scraped_price, row.default_price),
            !.best_store = <<store>>]
    ELSE row

\* a store without the book resets the row
scrape_price_absent_resets(row, store, scraped_price) ==
    IF scraped_price = None
    THEN [row EXCEPT !.best_price = None, !.best_store = NoStore, !.discount = None]
    ELSE IF row.best_price = None \/ LeqMargin(scraped_price, row.best_price)
    THEN [row EXCEPT
            !.best_price = scraped_price,
            !.discount = Discount(scraped_price, row.default_price),
            !.best_store = IF @ # NoStore THEN Append(@, store) ELSE <<store>>]
    ELSE row

\* every quote is taken: the last store to return a price wins
scrape_price_last_wins(row, store, scraped_price) ==
    IF scraped_price = None
    THEN row
    ELSE [row EXCEPT
            !.best_price = scraped_price,
            !.discount = Discount(scraped_price, row.default_price),
            !.best_store = IF @ # NoStore THEN Append(@, store) ELSE <<store>>]

\* the discount is computed for the first price only
scrape_price_stale_discount(row, store, scraped_price) ==
    IF scraped_price = None
    THEN row
    ELSE IF row.best_price = None \/ LeqMargin(scraped_price, row.best_price)
    THEN [row EXCEPT
            !.best_price = scraped_price,
            !.discount = IF @ = None THEN Discount(scraped_price, row.default_price) ELSE @,
            !.best_store = IF @ # NoStore THEN Append(@, store) ELSE <<store>>]
    ELSE row

\* the store name is put in front of the stores already there
scrape_price_store_first(row, store, scraped_price) ==
    IF scraped_price = None
    THEN row
    ELSE IF row.best_price = None \/ LeqMargin(scraped_price, row.best_price)
    THEN [row EXCEPT
            !.best_price = scraped_price,
            !.discount = Discount(scraped_price, row.default_price),
            !.best_store = <<store>> \o @]
    ELSE row

(***************************************************************************)
(* scrape_price_from_store, after get_price returned scraped_price.        *)
(***************************************************************************)
scrape_price_from_store(row, store, scraped_price) ==
    IF scraped_price = None
    THEN row
    ELSE IF row.best_price = None \/ LeqMargin(scraped_price, row.best_price)
    THEN LET priced == [row EXCEPT
                          !.best_price = scraped_price,
                          !.discount = Discount(scraped_price, row.default_price)]
         IN  IF priced.best_store # NoStore /\ scraped_price = priced.best_price
             THEN [priced EXCEPT !.best_store = Append(@, store)]
             ELSE [priced EXCEPT !.best_store = <<store>>]
    ELSE row

(***************************************************************************)
(* DataFrame.apply(axis=1) rebuilds the frame from the returned rows and   *)
(* calls infer_objects on it: an object column that holds a float (or int) *)
(* next to None becomes float64, its None cells nan; a column of only None *)
(* stays as it is.  best_store holds strings and is left alone.            *)
(***************************************************************************)
infer_column(df, col, isbn) ==
    IF df[isbn][col] = None /\ \E other \in DOMAIN df : df[other][col] # None
    THEN NaN
    ELSE df[isbn][col]

infer_objects(df) ==
    [isbn \in DOMAIN df |->
        [df[isbn] EXCEPT
            !.best_price = infer_column(df, "best_price", isbn),
            !.discount = infer_column(df, "discount", isbn)]]

(***************************************************************************)
(* scrape_books, lines 230-234, as a function of the quotes: df_books      *)
(* after one apply pass per store of `order`, with q[store][isbn] the      *)
(* price get_price returns.                                                *)
(***************************************************************************)
apply_pass(df, s, q) ==
    infer_objects([isbn \in DOMAIN df |-> scrape_price_from_store(df[isbn], s, q[s][isbn])])

RECURSIVE scrape_stores(_, _, _, _)
scrape_stores(df, order, i, q) ==
    IF i > Len(order)
    THEN df
    ELSE scrape_stores(apply_pass(df, order[i], q), order, i + 1, q)

(***************************************************************************)
(* The ledger.  A frame is [rows, dateCols, cells]: rows maps the isbn of  *)
(* each ledger row to its running-best fields, dateCols lists the labels   *)
(* of the date columns in column order (they follow LedgerCols), and       *)
(* cells[d][isbn] is the cell of date column d in the row of isbn.         *)
(***************************************************************************)
NumCols(h) == Len(LedgerCols) + Len(h.dateCols)

Pos(cols, c) == CHOOSE i \in DOMAIN cols : cols[i] = c

\* the value of column c in the row of isbn in df_books
BookValue(isbn, book, c) ==
    CASE c = "isbn" -> isbn
      [] c = "title" -> "title"
      [] OTHER -> book[c]

\* one element of df_books.itertuples(): the index, then the row's values
itertuple(isbn, book) ==
    <<isbn>> \o [i \in DOMAIN BookCols |-> BookValue(isbn, book, BookCols[i])]

\* df_history.loc[isbn] = book_series for an isbn the ledger has no row for:
\* a tuple is assigned by position, and one whose length is not the number of
\* the ledger's columns raises ValueError (cannot set a row with mismatched
\* columns).
seed_row(h, isbn, book) ==
    LET tuple == itertuple(isbn, book)
    IN  IF Len(tuple) # NumCols(h)
        THEN [error |-> "ValueError", frame |-> h]
        ELSE [error |-> "",
              frame |->
                [rows |-> [r \in DOMAIN h.rows \cup {isbn} |->
                    IF r = isbn
                    THEN [default_price |-> tuple[Pos(LedgerCols, "default_price")],
                          best_price |-> tuple[Pos(LedgerCols, "best_price")],
                          best_store |-> tuple[Pos(LedgerCols, "best_store")],
                          discount |-> tuple[Pos(LedgerCols, "discount")],
                          best_date |-> tuple[Pos(LedgerCols, "best_date")]]
                    ELSE h.rows[r]],
                 dateCols |-> h.dateCols,
                 cells |-> [d \in DOMAIN h.cells |->
                    [r \in DOMAIN h.rows \cup {isbn} |->
                        IF r = isbn
                        THEN tuple[Len(LedgerCols) + Pos(h.dateCols, d)]
                        ELSE h.cells[d][r]]]]]

\* overwrite_best with the slip of leaving best_date as it was
overwrite_best_keeps_date(h, isbn, book, today_date) ==
    [h EXCEPT !.rows[isbn] =
        [@ EXCEPT !.best_price = book.best_price,
                  !.best_store = book.best_store,
                  !.discount = book.discount]]

\* lines 171-174: the running-best fields take today's values and today's date
overwrite_best(h, isbn, book, today_date) ==
    [h EXCEPT !.rows[isbn] =
        [@ EXCEPT !.best_price = book.best_price,
                  !.best_store = book.best_store,
                  !.discount = book.discount,
                  !.best_date = today_date]]

\* the body of the loop of update_historical_data for the book at catalog[i],
\* then the rest of the loop
RECURSIVE merge_books(_, _, _, _, _)
merge_books(h, catalog, df, i, today_date) ==
    IF i > Len(catalog)
    THEN [error |-> "", frame |-> h]
    ELSE LET isbn == catalog[i]
             book == df[isbn]
             seeded == IF isbn \notin DOMAIN h.rows
                       THEN seed_row(h, isbn, book)
                       ELSE [error |-> "", frame |-> h]
         IN  IF seeded.error # ""
             THEN seeded
             ELSE IF book.best_price = None
             THEN merge_books(seeded.frame, catalog, df, i + 1, today_date)
             ELSE IF LeqMargin(book.best_price, seeded.frame.rows[isbn].best_price)
             THEN merge_books(overwrite_best(seeded.frame, isbn, book, today_date),
                              catalog, df, i + 1, today_date)
             ELSE merge_books(seeded.frame, catalog, df, i + 1, today_date)

InsertAt(s, i, e) == SubSeq(s, 1, i - 1) \o <<e>> \o SubSeq(s, i, Len(s))

\* insert_today with the slip of inserting a column whether or not one has
\* today's label
insert_today_always(h, df, today_date) ==
    [error |-> "",
     frame |->
        [rows |-> h.rows,
         dateCols |-> InsertAt(h.dateCols, InsertLoc - Len(LedgerCols) + 1, today_date),
         cells |-> [d \in DOMAIN h.cells \cup {today_date} |->
            IF d = today_date
            THEN [r \in DOMAIN h.rows |->
                    IF r \in DOMAIN df THEN df[r].best_price ELSE NaN]
            ELSE h.cells[d]]]]

\* insert_today with the slip of filling the column with the running best
insert_today_running_best(h, df, today_date) ==
    IF today_date \in Range(h.dateCols)
    THEN [error |-> "", frame |-> h]
    ELSE [error |-> "",
          frame |->
            [rows |-> h.rows,
             dateCols |-> InsertAt(h.dateCols, InsertLoc - Len(LedgerCols) + 1, today_date),
             cells |-> [d \in DOMAIN h.cells \cup {today_date} |->
                IF d = today_date
                THEN [r \in DOMAIN h.rows |-> h.rows[r].best_price]
                ELSE h.cells[d]]]]

\* lines 176-177: the column of today's date is inserted at position 9 when no
\* column has that label; the new column is df_books["best_price"] aligned on
\* the ledger's index (nan for a row that is not in df_books).  insert raises
\* IndexError when the frame has fewer than 9 columns.
insert_today(h, df, today_date) ==
    IF today_date \in Range(h.dateCols)
    THEN [error |-> "", frame |-> h]
    ELSE IF InsertLoc > NumCols(h)
    THEN [error |-> "IndexError", frame |-> h]
    ELSE [error |-> "",
          frame |->
            [rows |-> h.rows,
             dateCols |-> InsertAt(h.dateCols, InsertLoc - Len(LedgerCols) + 1, today_date),
             cells |-> [d \in DOMAIN h.cells \cup {today_date} |->
                IF d = today_date
                THEN [r \in DOMAIN h.rows |->
                        IF r \in DOMAIN df THEN df[r].best_price ELSE NaN]
                ELSE h.cells[d]]]]

\* update_historical_data with the slip of keeping only the rows of today's
\* books
update_tracked_only(h, catalog, df, today_date) ==
    LET merged == merge_books(h, catalog, df, 1, today_date)
        full == insert_today(merged.frame, df, today_date).frame
        kept == DOMAIN full.rows \cap Range(catalog)
    IN  IF merged.error # ""
        THEN merged
        ELSE [error |-> "",
              frame |->
                [rows |-> [r \in kept |-> full.rows[r]],
                 dateCols |-> full.dateCols,
                 cells |-> [d \in DOMAIN full.cells |->
                    [r \in kept |-> full.cells[d][r]]]]]

update_historical_data(h, catalog, df, today_date) ==
    LET merged == merge_books(h, catalog, df, 1, today_date)
    IN  IF merged.error # ""
        THEN merged
        ELSE insert_today(merged.frame, df, today_date)

\* to_csv writes None and nan as an empty field, which read_csv reads as nan
csv_cell(x) == IF x = None THEN NaN ELSE x

to_csv(h) ==
    [rows |-> [r \in DOMAIN h.rows |->
                [h.rows[r] EXCEPT !.best_price = csv_cell(@), !.discount = csv_cell(@)]],
     dateCols |-> h.dateCols,
     cells |-> [d \in DOMAIN h.cells |->
                [r \in DOMAIN h.rows |-> csv_cell(h.cells[d][r])]]]

\* read_historical_data: the frame the file holds
read_historical_data(file) == file

(***************************************************************************)
(* State.                                                                  *)
(***************************************************************************)
VARIABLES
    pc,          \* "idle", "scrape", "merge", "done" or "failed": where scrape_books
                 \* is; "called" after a direct call of scrape_price_from_store
    error,       \* the exception that ended the last run, "" when none did
    runs,        \* runs of scrape_books started so far
    clock,       \* the calendar day, as datetime.today() gives it
    ledger,      \* the ledger file at path_historic_data
    catalog,     \* the catalog file of the run, the isbn of its rows in order
    df_books,    \* scrape_books' df_books
    df_history,  \* scrape_books' df_history
    store,       \* position in STORE_MAIN_URLS of the store being scraped (in
                 \* StoreNames of the store of a direct call)
    book,        \* position in catalog of the row apply is at
    quotes,      \* quotes[store][isbn]: the price get_price returned in this run
    response     \* the HTTP response the last call of get_price received,
                 \* [store, status]; NoResponse when it sent no request

vars == <<pc, error, runs, clock, ledger, catalog, df_books, df_history,
          store, book, quotes, response>>

NoResponse == [store |-> "", status |-> 0]

NoQuotes == [s \in Range(STORE_MAIN_URLS) |-> [isbn \in ISBNs |-> None]]

(***************************************************************************)
(* The ledger file before the first run.  It holds the date columns of two *)
(* days, OldDays; the second is the day the model starts on.  A row holds  *)
(* a best price found at Almedina on the first of these days, or nothing   *)
(* (a book no store had a price for); isbn2 may have no row yet.           *)
(***************************************************************************)
OldDays == <<1, 2>>

LedgerRow(isbn, price) ==
    [default_price |-> DefaultPrice(isbn),
     best_price |-> price,
     best_store |-> IF price = NaN THEN NoStore ELSE <<"Almedina">>,
     discount |-> IF price = NaN THEN NaN ELSE Discount(price, DefaultPrice(isbn)),
     best_date |-> IF price = NaN THEN NaN ELSE OldDays[1]]

LedgerOf(rows) ==
    [rows |-> rows,
     dateCols |-> OldDays,
     cells |-> [d \in Range(OldDays) |->
                 [r \in DOMAIN rows |-> IF d = OldDays[1] THEN rows[r].best_price ELSE NaN]]]

InitLedgers ==
    {LedgerOf([r \in {"isbn1", "isbn2"} |->
                 LedgerRow(r, IF r = "isbn1" THEN price ELSE BasePrice)]) :
        price \in Prices \cup {NaN}}
    \cup {LedgerOf([r \in {"isbn1"} |-> LedgerRow(r, BasePrice + 1)])}

Init ==
    /\ pc = "idle"
    /\ error = ""
    /\ runs = 0
    /\ clock = OldDays[2]
    /\ ledger \in InitLedgers
    /\ catalog = <<>>
    /\ df_books = <<>>
    /\ df_history = ledger
    /\ store = 1
    /\ book = 1
    /\ quotes = NoQuotes
    /\ response = NoResponse

(***************************************************************************)
(* scrape_books, lines 227-228: a run starts, on the same day as the last  *)
(* one or on the next, and reads the two files.                            *)
(***************************************************************************)
StartRun ==
    /\ pc \in {"idle", "done", "failed"}
    /\ runs < MaxRuns
    /\ \E c \in Catalogs, day \in {clock, clock + 1} :
        /\ catalog' = c
        /\ clock' = day
        /\ df_books' = read_books(c)
    /\ df_history' = read_historical_data(ledger)
    /\ runs' = runs + 1
    /\ pc' = "scrape"
    /\ error' = ""
    /\ store' = 1
    /\ book' = 1
    /\ quotes' = NoQuotes
    /\ response' = NoResponse
    /\ UNCHANGED ledger

\* the position after the row at (store, book) of the apply loops, lines 230-234
LastBook == book = Len(catalog)
LastStore == store = Len(STORE_MAIN_URLS)

Advance ==
    /\ book' = IF LastBook THEN 1 ELSE book + 1
    /\ store' = IF LastBook /\ ~LastStore THEN store + 1 ELSE store
    /\ pc' = IF LastBook /\ LastStore THEN "merge" ELSE "scrape"

StatusOf(s, resp, got) ==
    IF got.sent THEN [store |-> s, status |-> resp.status] ELSE NoResponse

(***************************************************************************)
(* One call of scrape_price_from_store by apply: the adapter answers and   *)
(* the row is updated; after the last row of a store's pass apply returns  *)
(* the rebuilt frame.                                                      *)
(***************************************************************************)
Scrape ==
    /\ pc = "scrape"
    /\ \E resp \in Responses(catalog[book]) :
        LET s == STORE_MAIN_URLS[store]
            isbn == catalog[book]
            got == get_price(s, resp)
            row == scrape_price_from_store(df_books[isbn], s, got.price)
            rows == [df_books EXCEPT ![isbn] = row]
        IN  /\ got.raised = ""
            /\ df_books' = IF LastBook THEN infer_objects(rows) ELSE rows
            /\ quotes' = [quotes EXCEPT ![s][isbn] = got.price]
            /\ response' = StatusOf(s, resp, got)
    /\ Advance
    /\ UNCHANGED <<error, runs, clock, ledger, catalog, df_history>>

\* get_price raises: the exception leaves scrape_books
ScrapeRaise ==
    /\ pc = "scrape"
    /\ \E resp \in Responses(catalog[book]) :
        LET s == STORE_MAIN_URLS[store]
            got == get_price(s, resp)
        IN  /\ got.raised # ""
            /\ response' = StatusOf(s, resp, got)
            /\ error' = got.raised
    /\ pc' = "failed"
    /\ UNCHANGED <<runs, clock, ledger, catalog, df_books, df_history, store, book, quotes>>

(***************************************************************************)
(* scrape_books, lines 236-237: the merge, then the ledger file is written.*)
(***************************************************************************)
MergeAndSave ==
    /\ pc = "merge"
    /\ LET updated == update_historical_data(df_history, catalog, df_books, clock)
       IN  /\ updated.error = ""
           /\ df_history' = updated.frame
           /\ ledger' = to_csv(updated.frame)
    /\ pc' = "done"
    /\ UNCHANGED <<error, runs, clock, catalog, df_books, store, book, quotes, response>>

\* MergeRaise with the slip of writing the frame the merge had reached
MergeRaiseSaves ==
    /\ pc = "merge"
    /\ LET updated == update_historical_data(df_history, catalog, df_books, clock)
       IN  /\ updated.error # ""
           /\ df_history' = updated.frame
           /\ ledger' = to_csv(updated.frame)
           /\ error' = updated.error
    /\ pc' = "failed"
    /\ UNCHANGED <<runs, clock, catalog, df_books, store, book, quotes, response>>

\* update_historical_data raises: nothing is written
MergeRaise ==
    /\ pc = "merge"
    /\ LET updated == update_historical_data(df_history, catalog, df_books, clock)
       IN  /\ updated.error # ""
           /\ df_history' = updated.frame
           /\ error' = updated.error
    /\ pc' = "failed"
    /\ UNCHANGED <<runs, clock, ledger, catalog, df_books, store, book, quotes, response>>

Next ==
    \/ StartRun
    \/ Scrape
    \/ ScrapeRaise
    \/ MergeAndSave
    \/ MergeRaise

Spec == Init /\ [][Next]_vars

\* the behaviours that hold a single run of scrape_books
StartFirstRun == runs = 0 /\ StartRun

NextFirstRun ==
    \/ StartFirstRun
    \/ Scrape
    \/ ScrapeRaise
    \/ MergeAndSave
    \/ MergeRaise

SpecFirstRun == Init /\ [][NextFirstRun]_vars

(***************************************************************************)
(* scrape_price_from_store called by a caller other than scrape_books: on  *)
(* any row of the table a run has built so far and with any store name,    *)
(* one of STORE_MAIN_URLS or one that price_functions has no adapter for.  *)
(***************************************************************************)
StoreNames == STORE_MAIN_URLS \o <<"Wook">>

DirectCall ==
    /\ pc = "scrape"
    /\ \E i \in DOMAIN StoreNames, b \in DOMAIN catalog :
        \E resp \in Responses(catalog[b]) :
            LET s == StoreNames[i]
                isbn == catalog[b]
                got == get_price(s, resp)
            IN  /\ got.raised = ""
                /\ df_books' = [df_books EXCEPT
                                    ![isbn] = scrape_price_from_store(@, s, got.price)]
                /\ response' = StatusOf(s, resp, got)
                /\ store' = i
                /\ book' = b
    /\ pc' = "called"
    /\ UNCHANGED <<error, runs, clock, ledger, catalog, df_history, quotes>>

\* get_price raises in the direct call
DirectCallRaise ==
    /\ pc = "scrape"
    /\ \E i \in DOMAIN StoreNames, b \in DOMAIN catalog :
        \E resp \in Responses(catalog[b]) :
            LET s == StoreNames[i]
                got == get_price(s, resp)
            IN  /\ got.raised # ""
                /\ response' = StatusOf(s, resp, got)
                /\ error' = got.raised
                /\ store' = i
                /\ book' = b
    /\ pc' = "failed"
    /\ UNCHANGED <<runs, clock, ledger, catalog, df_books, df_history, quotes>>

NextCalls ==
    \/ StartFirstRun
    \/ Scrape
    \/ DirectCall
    \/ DirectCallRaise

SpecCalls == Init /\ [][NextCalls]_vars

(***************************************************************************)
(* Properties.                                                             *)
(***************************************************************************)
\* a step in which apply called scrape_price_from_store and it returned
ScrapeStep ==
    /\ pc = "scrape"
    /\ pc' \in {"scrape", "merge"}
    /\ <<pc, store, book>> # <<pc', store', book'>>

\* the row and the store of that call, and the quote get_price returned to it
CallIsbn == catalog[book]
CallStore == STORE_MAIN_URLS[store]
CallQuote == quotes'[CallStore][CallIsbn]

\* C1: in scrape_price_from_store, for a row whose best_price is a number P and
\* a quote Q that is not None, best_price becomes Q if and only if
\* Q <= P + 0.02 (the float comparison of line 203); when it does not hold the
\* row (best_price, best_store, discount) stays as it was.
C1_ToleranceRule ==
    [][ScrapeStep =>
        LET before == df_books[CallIsbn]
            after == df_books'[CallIsbn]
        IN  (IsNumber(before.best_price) /\ CallQuote # None) =>
                /\ (after.best_price = CallQuote)
                        <=> LeqMargin(CallQuote, before.best_price)
                /\ ~LeqMargin(CallQuote, before.best_price) => after = before]_vars

\* Almedina set BasePrice, Leya's BasePrice + 3 was rejected and Presenca's
\* BasePrice + 2 was accepted
C1_Witness ==
    /\ pc = "merge"
    /\ quotes["Almedina"]["isbn1"] = BasePrice
    /\ quotes["Leya"]["isbn1"] = BasePrice + 3
    /\ quotes["Presenca"]["isbn1"] = BasePrice + Margin
    /\ df_books["isbn1"].best_price = BasePrice + Margin
    /\ df_books["isbn1"].best_store = <<"Almedina", "Presenca">>

\* C2: when a row has a best store and a later store's accepted quote is
\* strictly lower than the current best price, best_store becomes that store
\* alone.
C2_LowerQuoteReplacesStore ==
    [][ScrapeStep =>
        LET before == df_books[CallIsbn]
            after == df_books'[CallIsbn]
        IN  (/\ before.best_store # NoStore
             /\ IsNumber(before.best_price)
             /\ CallQuote # None
             /\ CallQuote < before.best_price) =>
                after.best_store = <<CallStore>>]_vars

\* C8: when the adapter returns None, scrape_price_from_store returns the row as
\* it got it, whatever it held: the frame after the call is the frame before it
\* (rebuilt by apply when the call was the last of the pass).
C8_AbsenceLeavesRow ==
    [][(ScrapeStep /\ CallQuote = None) =>
        df_books' = IF LastBook THEN infer_objects(df_books) ELSE df_books]_vars

\* Leya had no price for a book that Almedina had priced
C8_Witness ==
    /\ pc = "scrape"
    /\ store = 3
    /\ book = 1
    /\ "isbn1" \in DOMAIN df_books
    /\ quotes["Almedina"]["isbn1"] = BasePrice + 1
    /\ quotes["Leya"]["isbn1"] = None
    /\ df_books["isbn1"].best_price = BasePrice + 1
    /\ df_books["isbn1"].best_store = <<"Almedina">>

\* C10: when a row has a best store and a later store's quote equals the current
\* best price, best_store becomes the old value joined with the new store name
\* and best_price keeps its value.
C10_TieJoinsStore ==
    [][ScrapeStep =>
        LET before == df_books[CallIsbn]
            after == df_books'[CallIsbn]
        IN  (/\ before.best_store # NoStore
             /\ IsNumber(before.best_price)
             /\ CallQuote = before.best_price) =>
                /\ after.best_store = Append(before.best_store, CallStore)
                /\ after.best_price = before.best_price]_vars

C10_Witness ==
    /\ pc = "scrape"
    /\ store = 3
    /\ "isbn1" \in DOMAIN df_books
    /\ quotes["Almedina"]["isbn1"] = BasePrice + 1
    /\ quotes["Leya"]["isbn1"] = BasePrice + 1
    /\ df_books["isbn1"].best_price = BasePrice + 1
    /\ df_books["isbn1"].best_store = <<"Almedina", "Leya">>

\* the orders STORE_MAIN_URLS could list the stores in
Orders ==
    {o \in [DOMAIN STORE_MAIN_URLS -> Range(STORE_MAIN_URLS)] :
        Range(o) = Range(STORE_MAIN_URLS)}

\* the quotes of this run for a book that are prices
PricesQuoted(isbn) ==
    {quotes[s][isbn] : s \in Range(STORE_MAIN_URLS)} \ {None}

MinQuote(isbn) == CHOOSE m \in PricesQuoted(isbn) : \A x \in PricesQuoted(isbn) : m <= x

\* df_books after the stores were processed in order o, for each order o
FinalBooks == [o \in Orders |-> scrape_stores(read_books(catalog), o, 1, quotes)]

\* C3, as claimed: for fixed quotes the final best_price of a book is the same
\* for every order in which the stores are processed.
C3_OrderIndependent ==
    pc = "merge" =>
        LET final == FinalBooks
        IN  \A o \in Orders, isbn \in Range(catalog) :
                csv_cell(final[o][isbn].best_price) = csv_cell(df_books[isbn].best_price)

\* two prices that the margin test tells apart in both directions
FarApart(x, y) == x = y \/ (x < y /\ ~LeqMargin(y, x)) \/ (y < x /\ ~LeqMargin(x, y))

\* C3, amended: for fixed quotes the final best_price of a book is the same for
\* every order in which the stores are processed when every store returned a
\* price for the book and any two of these prices are equal or more than the
\* margin apart.
C3_OrderIndependentFarApart ==
    pc = "merge" =>
        LET final == FinalBooks
        IN  \A isbn \in Range(catalog) :
                (/\ \A s \in Range(STORE_MAIN_URLS) : quotes[s][isbn] # None
                 /\ \A x, y \in PricesQuoted(isbn) : FarApart(x, y)) =>
                    \A o \in Orders :
                        csv_cell(final[o][isbn].best_price)
                            = csv_cell(df_books[isbn].best_price)

C3_Witness ==
    /\ pc = "merge"
    /\ "isbn1" \in DOMAIN df_books
    /\ quotes["Almedina"]["isbn1"] = BasePrice + 3
    /\ quotes["Leya"]["isbn1"] = BasePrice
    /\ quotes["Presenca"]["isbn1"] = BasePrice + 3
    /\ df_books["isbn1"].best_price = BasePrice

\* C7, as claimed: after all stores have been processed a book's best_price is
\* never more than 0.02 above the minimum of the prices the stores returned.
C7_WithinMarginOfMinimum ==
    pc = "merge" =>
        \A isbn \in Range(catalog) :
            IsNumber(df_books[isbn].best_price) =>
                df_books[isbn].best_price <= MinQuote(isbn) + Margin

\* the stores that returned a price for the book after the last store that
\* returned the minimum
LaterQuotes(isbn) ==
    LET last == CHOOSE i \in DOMAIN STORE_MAIN_URLS :
                    /\ quotes[STORE_MAIN_URLS[i]][isbn] = MinQuote(isbn)
                    /\ \A j \in DOMAIN STORE_MAIN_URLS :
                        quotes[STORE_MAIN_URLS[j]][isbn] = MinQuote(isbn) => j <= i
    IN  {j \in DOMAIN STORE_MAIN_URLS :
            j > last /\ quotes[STORE_MAIN_URLS[j]][isbn] # None}

\* C7, amended: after all stores have been processed a book's best_price, when
\* it is a number, is never more than 0.02 above the minimum quote for each
\* store that returned a price after the store that returned the minimum (so
\* at most 0.04 above it with three stores).
C7_WithinMarginPerLaterStore ==
    pc = "merge" =>
        \A isbn \in Range(catalog) :
            IsNumber(df_books[isbn].best_price) =>
                df_books[isbn].best_price
                    <= MinQuote(isbn) + Margin * Cardinality(LaterQuotes(isbn))

\* BasePrice, then BasePrice + 2, then BasePrice + 3: each within the margin of
\* the one before
C7_Witness ==
    /\ pc = "merge"
    /\ "isbn1" \in DOMAIN df_books
    /\ quotes["Almedina"]["isbn1"] = BasePrice
    /\ quotes["Leya"]["isbn1"] = BasePrice + Margin
    /\ quotes["Presenca"]["isbn1"] = BasePrice + Margin + 1
    /\ df_books["isbn1"].best_price = BasePrice + Margin + 1

\* a step in which update_historical_data returned and the ledger was written
MergeStep == pc = "merge" /\ pc' = "done"

\* the books of today's records that have a ledger row before the merge
Tracked == Range(catalog) \cap DOMAIN df_history.rows

\* C4: in update_historical_data, for a book that has a ledger row, the row's
\* best_price, best_store, discount and best_date become today's values and
\* today's date if and only if today's best price is not absent and
\* today_best <= ledger_best_price + 0.02 (the float comparison of line 164);
\* otherwise the merge leaves the four fields as they were.
C4_MergeOverwritesIff ==
    [][MergeStep =>
        \A isbn \in Tracked :
            LET old == df_history.rows[isbn]
                new == df_history'.rows[isbn]
                today == df_books[isbn]
            IN  IF IsNumber(today.best_price)
                   /\ LeqMargin(today.best_price, old.best_price)
                THEN /\ new.best_price = today.best_price
                     /\ new.best_store = today.best_store
                     /\ new.discount = today.discount
                     /\ new.best_date = clock
                     /\ ledger'.rows[isbn] = new
                ELSE /\ new = old
                     /\ ledger'.rows[isbn] = old]_vars

\* on day 3 the row of isbn1, whose best price was BasePrice + 1 since day 1,
\* took today's BasePrice + 2
C4_Witness ==
    /\ pc = "done"
    /\ clock = OldDays[2] + 1
    /\ "isbn1" \in DOMAIN df_books
    /\ df_books["isbn1"].best_price = BasePrice + 2
    /\ ledger.rows["isbn1"].best_price = BasePrice + 2
    /\ ledger.rows["isbn1"].best_store = df_books["isbn1"].best_store
    /\ ledger.rows["isbn1"].best_date = clock

\* C5: when the merge runs a second time on a date whose column an earlier run
\* added, the column of that date holds, after the second merge, the second
\* run's best price of each book.
C5_SameDateColumnUpdated ==
    [][(MergeStep /\ clock \notin Range(OldDays) /\ clock \in Range(df_history.dateCols)) =>
        \A isbn \in Tracked :
            ledger'.cells[clock][isbn] = csv_cell(df_books[isbn].best_price)]_vars

\* C6: a response with a status that is not 2xx is fatal for every adapter: the
\* call raises and the run has failed.
C6_Non2xxIsFatal ==
    response.status \notin {0, 200} => pc = "failed"

\* C9: a book of today's records that has no ledger row gets one from the
\* merge, with best_price, best_store and discount equal to today's values,
\* and the merge adds no other row.
C9_NewBookSeeded ==
    [][(pc = "merge" /\ pc' # "merge") =>
        /\ DOMAIN df_history'.rows = DOMAIN df_history.rows \cup Range(catalog)
        /\ \A isbn \in Range(catalog) \ DOMAIN df_history.rows :
            /\ isbn \in DOMAIN df_history'.rows
            /\ df_history'.rows[isbn].best_price = df_books[isbn].best_price
            /\ df_history'.rows[isbn].best_store = df_books[isbn].best_store
            /\ df_history'.rows[isbn].discount = df_books[isbn].discount]_vars

\* absent, as a cell of a table shows it: None, or nan once the column is float
Absent(x) == x \in {None, NaN}

\* C11: a book whose best_price is absent accepts any quote that is not None:
\* best_price becomes the quote and best_store the reporting store alone,
\* whichever store is the first to return a price for the book.
C11_AbsentBestTakesQuote ==
    [][ScrapeStep =>
        LET before == df_books[CallIsbn]
            after == df_books'[CallIsbn]
        IN  (Absent(before.best_price) /\ CallQuote # None) =>
                /\ after.best_price = CallQuote
                /\ after.best_store = <<CallStore>>]_vars

\* C12: at every point of a run every book whose best_price is a number has
\* discount = round((1 - best_price / default_price) * 100) for that
\* best_price; a default price of 20.00 and a best price of 15.00 give 25.
C12_DiscountOfBestPrice ==
    /\ Discount(1500, 2000) = 25
    /\ \A isbn \in DOMAIN df_books :
        IsNumber(df_books[isbn].best_price) =>
            df_books[isbn].discount
                = Discount(df_books[isbn].best_price, df_books[isbn].default_price)

\* Leya's lower price replaced Almedina's, and the two prices give different
\* discounts
C12_Witness ==
    /\ pc = "merge"
    /\ "isbn1" \in DOMAIN df_books
    /\ quotes["Almedina"]["isbn1"] = BasePrice + 1
    /\ quotes["Leya"]["isbn1"] = BasePrice
    /\ quotes["Presenca"]["isbn1"] = None
    /\ df_books["isbn1"].best_price = BasePrice
    /\ df_books["isbn1"].discount = Discount(BasePrice, DefaultPrice("isbn1"))
    /\ Discount(BasePrice, DefaultPrice("isbn1"))
            # Discount(BasePrice + 1, DefaultPrice("isbn1"))

\* the stores of best_store are configured stores already processed, in the
\* order of STORE_MAIN_URLS, none twice
InStoreOrder(best_store) ==
    /\ \A i \in DOMAIN best_store :
        /\ best_store[i] \in Range(STORE_MAIN_URLS)
        /\ Pos(STORE_MAIN_URLS, best_store[i]) <= store
    /\ \A i, j \in DOMAIN best_store :
        i < j => Pos(STORE_MAIN_URLS, best_store[i]) < Pos(STORE_MAIN_URLS, best_store[j])

\* C20: at every point of a run, for every book, best_price, best_store and
\* discount are all absent or all set; when set, best_store lists configured
\* store names, each at most once, in the order the stores were processed.
C20_FieldsSetTogether ==
    \A isbn \in DOMAIN df_books :
        LET row == df_books[isbn]
        IN  \/ /\ Absent(row.best_price)
               /\ row.best_store = NoStore
               /\ Absent(row.discount)
            \/ /\ IsNumber(row.best_price)
               /\ row.best_store # NoStore
               /\ IsNumber(row.discount)
               /\ InStoreOrder(row.best_store)

\* no store had isbn1 and all three had isbn2
C20_Witness ==
    /\ pc = "merge"
    /\ catalog = <<"isbn1", "isbn2">>
    /\ df_books["isbn1"].best_price = NaN
    /\ df_books["isbn1"].best_store = NoStore
    /\ df_books["isbn1"].discount = NaN
    /\ df_books["isbn2"].best_price = BasePrice
    /\ df_books["isbn2"].best_store = STORE_MAIN_URLS

NoDuplicates(s) == Cardinality(Range(s)) = Len(s)

\* C13: the ledger has at most one column per date: a merge on a date whose
\* column exists adds no column, and a merge on a date with no column adds
\* exactly one column, labelled with that date.
C13_OneColumnPerDate ==
    [][MergeStep =>
        LET old == df_history.dateCols
            new == ledger'.dateCols
        IN  /\ IF clock \in Range(old)
               THEN new = old
               ELSE /\ Len(new) = Len(old) + 1
                    /\ Range(new) = Range(old) \cup {clock}
            /\ NoDuplicates(new)]_vars

\* the second run of a day left the column that the first run of that day had
\* added: the ledger has one new column, and it does not hold this run's price
C13_Witness ==
    /\ pc = "done"
    /\ runs = 2
    /\ clock = OldDays[2] + 1
    /\ ledger.dateCols = <<OldDays[1], OldDays[2], clock>>
    /\ "isbn1" \in DOMAIN df_books
    /\ ledger.cells[clock]["isbn1"] # csv_cell(df_books["isbn1"].best_price)

\* C14: the ledger file changes only in the step that ends a run whose store
\* passes and merge all returned; a run that fails leaves the file as it was
\* when the run began.
C14_SavedOnlyOnSuccess ==
    [][/\ ledger' # ledger =>
            /\ MergeStep
            /\ error' = ""
            /\ LastStore
            /\ response.store = STORE_MAIN_URLS[Len(STORE_MAIN_URLS)]
       /\ MergeStep => ledger' = to_csv(df_history')
       /\ pc' = "failed" => ledger' = ledger]_vars

\* the merge raised after it had overwritten a row of the frame in memory,
\* and the file still holds the old row
C14_Witness ==
    /\ pc = "failed"
    /\ error = "ValueError"
    /\ "isbn1" \in DOMAIN df_books
    /\ df_history.rows["isbn1"].best_price = df_books["isbn1"].best_price
    /\ df_history.rows["isbn1"].best_date = clock
    /\ ledger.rows["isbn1"].best_date = OldDays[1]
    /\ ledger.rows["isbn1"].best_price # df_books["isbn1"].best_price

C17_DateColumnHoldsToday ==
    [][(MergeStep /\ clock \notin Range(df_history.dateCols)) =>
        /\ clock \in Range(ledger'.dateCols)
        /\ \A r \in DOMAIN ledger'.rows :
            /\ ledger'.cells[clock][r] =
                    IF r \in Range(catalog) THEN csv_cell(df_books[r].best_price) ELSE NaN
            /\ csv_cell(df_history'.cells[clock][r]) = ledger'.cells[clock][r]]_vars

\* isbn2 was not in today's catalog; isbn1's price of today was too high to
\* change its running best
C17_Witness ==
    /\ pc = "done"
    /\ runs = 1
    /\ clock = OldDays[2] + 1
    /\ catalog = <<"isbn1">>
    /\ "isbn2" \in DOMAIN ledger.rows
    /\ ledger.cells[clock]["isbn2"] = NaN
    /\ ledger.cells[clock]["isbn1"] = BasePrice + 3
    /\ ledger.rows["isbn1"].best_price = BasePrice
    /\ ledger.rows["isbn1"].best_date = OldDays[1]

\* C18: the ledger only grows: no step removes a date column or a row of the
\* ledger, also not the row of a book that is not in the catalog any more.
C18_LedgerOnlyGrows ==
    [][/\ DOMAIN ledger.rows \subseteq DOMAIN ledger'.rows
       /\ Range(ledger.dateCols) \subseteq Range(ledger'.dateCols)
       /\ MergeStep =>
            /\ DOMAIN df_history.rows \subseteq DOMAIN df_history'.rows
            /\ Range(df_history.dateCols) \subseteq Range(df_history'.dateCols)]_vars

\* two runs on two new days with a catalog that does not hold isbn2: its row
\* is still there and the ledger has two more columns
C18_Witness ==
    /\ pc = "done"
    /\ runs = 2
    /\ catalog = <<"isbn1">>
    /\ "isbn2" \in DOMAIN ledger.rows
    /\ Len(ledger.dateCols) = Len(OldDays) + 2
    /\ Range(OldDays) \subseteq Range(ledger.dateCols)

\* C19: a ledger row whose running best_price is absent takes today's best
\* price, store, discount and date in the first merge in which the book has
\* a best price.
C19_AbsentBestAdoptsToday ==
    [][MergeStep =>
        \A isbn \in Tracked :
            LET old == df_history.rows[isbn]
                new == df_history'.rows[isbn]
                today == df_books[isbn]
            IN  (Absent(old.best_price) /\ IsNumber(today.best_price)) =>
                    /\ new.best_price = today.best_price
                    /\ new.best_store = today.best_store
                    /\ new.discount = today.discount
                    /\ new.best_date = clock]_vars

\* C15: get_price called with a store name that is none of Almedina, Leya and
\* Presenca raises (ValueError) without sending any HTTP request, and the
\* book's record is left as it was.
C15_UnknownStoreRaises ==
    [][(pc = "scrape" /\ pc' \in {"called", "failed"}
            /\ StoreNames[store'] \notin Range(STORE_MAIN_URLS)) =>
        /\ pc' = "failed"
        /\ error' = "ValueError"
        /\ response' = NoResponse
        /\ df_books' = df_books]_vars

\* the call for Wook raised on a row that Almedina and Leya had priced
C15_Witness ==
    /\ pc = "failed"
    /\ error = "ValueError"
    /\ StoreNames[store] = "Wook"
    /\ response = NoResponse
    /\ "isbn1" \in DOMAIN df_books
    /\ catalog[book] = "isbn1"
    /\ df_books["isbn1"].best_price = BasePrice + 1
    /\ df_books["isbn1"].best_store = <<"Almedina", "Leya">>

====
